---- MODULE Spec2Model ----
(***************************************************************************)
(* Model of the visitor chat widget (initChat): the room session           *)
(* controller (resumeChat / startChat), the history loader, the live       *)
(* connection, the deduplicated timeline and the send gate.                *)
(*                                                                         *)
(* Every handler of the widget runs to completion, so each handler is one  *)
(* action.  A promise in flight (a REST call) is an element of `pending';  *)
(* the environment resolves or rejects it.  Each WebSocket ever created is *)
(* an element of `socks' with its readyState; `ws' is the widget's current *)
(* socket.                                                                 *)
(***************************************************************************)
EXTENDS Integers, Sequences, FiniteSets, TLC

\* ---------------------------------------------------------------- bounds
MaxRetries == 2      \* clicks on the retry control in one behaviour
MaxBases == 2        \* longest list of candidate REST bases
MaxTicks == 2        \* clock advances in one behaviour
TickMs == 175        \* milliseconds per clock advance
T0 == 1000           \* Date.now() at page load (any value >= DebounceMs)
MaxAdds == 3         \* add calls between two clears in the timeline harness

\* ------------------------------------------------------ program constants
DebounceMs == 350    \* sendMessage: now - lastSendAt < 350
MinuteMs == 60000    \* toLocaleTimeString keeps hour and minute only

CONNECTING == 0
OPEN == 1
CLOSING == 2
CLOSED == 3

\* JavaScript null / undefined / missing field; falsy like "" is
Null == "null"
Falsy(v) == v = Null \/ v = ""
Truthy(v) == ~Falsy(v)
\* a || b
OrElse(a, b) == IF Truthy(a) THEN a ELSE b

\* ------------------------------------------------------------ the server
Rooms == {"r1", "r2"}
TokenOf(r) == IF r = "r1" THEN "t1" ELSE "t2"

\* the persisted item: absent, a JSON object, or text JSON.parse rejects
NoItem == [kind |-> "none"]
Garbage == [kind |-> "garbage"]
Pair(r, t) == [kind |-> "object", roomId |-> r, visitorToken |-> t]

\* responses of POST /api/chat/start/ : ws_path present or missing
StartResponses == [room_id : Rooms, has_ws_path : BOOLEAN]

\* entries of GET .../messages/ and inbound frames, as the server sends them
Iso1 == "2026-01-01T00:01:00Z"
Iso2 == "2026-01-01T00:01:05Z"
HistM1 == [id |-> "m1", sender_type |-> "owner", content |-> "hi", created_at |-> Iso1]
HistM2 == [id |-> "m2", sender_type |-> "visitor", content |-> "hello", created_at |-> Iso2]
Backlogs == {<< >>, <<HistM1, HistM2>>}

\* FrameM1 is HistM1 as the live stream broadcasts it, echoing a client id
FrameM1 == [id |-> "m1", client_msg_id |-> "c1", sender_type |-> "owner",
            message |-> "hi", created_at |-> Iso1]
FrameM2 == [id |-> "m2", client_msg_id |-> Null, sender_type |-> "visitor",
            message |-> "hello", created_at |-> Iso2]
BadFrame == [malformed |-> TRUE]
Frames == {FrameM1, FrameM2, BadFrame}

Inputs == {"", " ", "hi"}
Trim(s) == IF s = " " THEN "" ELSE s

VARIABLES
    storageOK,      \* localStorage can be accessed (else every access throws)
    stored,         \* the item under storeKey
    urlRoom,        \* query parameter room_id, or Null
    urlToken,       \* query parameter visitor_token, or Null
    restBases,      \* candidate REST bases, in order
    activated,      \* resumeChat() of initChat has run
    roomId, visitorToken, restBase,
    status,         \* what setStatus last showed
    retryHidden,    \* retryBtn.hidden
    pending,        \* REST calls in flight
    nSeq,           \* start sequences begun so far (startChat invocations)
    retries,        \* clicks on the retry control so far
    list,           \* rendered messages, in DOM order
    seen,           \* keys of the dedup map
    socks,          \* every WebSocket created, in creation order
    ws,             \* index in socks of the current socket, 0 for null
    input,          \* input.value
    lastSendAt,
    now,            \* Date.now()
    startLog,       \* per start sequence: the candidate indices it has called
    sent,           \* frames handed to ws.send, in order
    lastTry,        \* the latest sendMessage call that had non-empty text
    prevTry,        \* the one before it
    lastBacklog,    \* what the history fetch behind the current socket returned
    adds,           \* add calls since the last clear (timeline harness only)
    roomLog         \* ids of the messages the server holds for the room, in order

vars == <<storageOK, stored, urlRoom, urlToken, restBases, activated, roomId,
          visitorToken, restBase, status, retryHidden, pending, nSeq, retries,
          list, seen, socks, ws, input, lastSendAt, now, startLog, sent,
          lastTry, prevTry, lastBacklog, adds, roomLog>>

envVars == <<storageOK, restBases, roomLog>>
sessVars == <<roomId, visitorToken, restBase>>
uiVars == <<status, retryHidden>>
tlVars == <<list, seen>>
sockVars == <<socks, ws>>
gateVars == <<input, lastSendAt, sent, lastTry, prevTry>>


\* ------------------------------------------------------------- timeline
\* new Date(iso) in milliseconds of the day; -1 stands for an invalid date
ParseIso(iso) ==
    CASE iso = Iso1 -> 60000
      [] iso = Iso2 -> 65000
      [] OTHER -> -1

\* toLocaleTimeString([], {hour, minute}): the minute of the day
HourMinute(ms) == ToString(ms \div MinuteMs)

nowTime(clock) == HourMinute(clock)

formatTime(iso, clock) ==
    IF Falsy(iso) THEN nowTime(clock)
    ELSE IF ParseIso(iso) < 0 THEN nowTime(clock)
    ELSE HourMinute(ParseIso(iso))

messageKey(msg) ==
    IF Truthy(msg.client_msg_id) THEN "cid:" \o msg.client_msg_id
    ELSE IF Truthy(msg.id) THEN "id:" \o msg.id
    ELSE IF Truthy(msg.created_at)
         THEN msg.sender \o "|" \o msg.created_at \o "|" \o msg.text
    ELSE msg.sender \o "|" \o msg.text \o "|" \o msg.time

\* the timeline as a pair: rendered list and dedup map
Timeline(l, s) == [list |-> l, seen |-> s]

\* mutant: the dedup map is never consulted
addMessageNoCheck(tl, msg) ==
    Timeline(Append(tl.list, msg), tl.seen \cup {messageKey(msg)})

\* mutant: the new element is inserted ahead of the ones shown
addMessagePrepend(tl, msg) ==
    IF messageKey(msg) \in tl.seen THEN tl
    ELSE Timeline(<<msg>> \o tl.list, tl.seen \cup {messageKey(msg)})

addMessage(tl, msg) ==
    IF messageKey(msg) \in tl.seen THEN tl
    ELSE Timeline(Append(tl.list, msg), tl.seen \cup {messageKey(msg)})

clearMessages == Timeline(<< >>, {})

\* the message loadHistory builds from one entry of the response
HistoryMessage(m, clock) ==
    [id |-> OrElse(m.id, Null),
     client_msg_id |-> Null,
     sender |-> OrElse(m.sender_type, "owner"),
     text |-> OrElse(m.content, ""),
     time |-> formatTime(m.created_at, clock),
     created_at |-> OrElse(m.created_at, Null)]

\* the message ws.onmessage builds from a parsed frame
LiveMessage(data, clock) ==
    [id |-> OrElse(data.id, Null),
     client_msg_id |-> OrElse(data.client_msg_id, Null),
     sender |-> OrElse(data.sender_type, "owner"),
     text |-> OrElse(data.message, ""),
     time |-> formatTime(data.created_at, clock),
     created_at |-> OrElse(data.created_at, Null)]

\* mutant: the backlog is not rendered by the time the caller connects
AddBacklogLate(tl, data, clock) == tl

\* data.forEach(addMessage) of loadHistory
RECURSIVE AddBacklog(_, _, _)
AddBacklog(tl, data, clock) ==
    IF data = << >> THEN tl
    ELSE AddBacklog(addMessage(tl, HistoryMessage(Head(data), clock)), Tail(data), clock)


\* ------------------------------------------------------- identity store
\* mutant: a failed read is not told from a read, the item is used as it is
loadStoredRoomUnguarded ==
    IF stored.kind = "object" THEN stored ELSE Pair(Null, Null)

\* loadStoredRoom: null when storage throws, the item is absent or not JSON
loadStoredRoom ==
    IF ~storageOK THEN Pair(Null, Null)
    ELSE IF stored.kind = "object" THEN stored
    ELSE Pair(Null, Null)

\* mutant: the stored item is preferred to the link parameters
ResumePairStoredFirst ==
    IF Truthy(loadStoredRoom.roomId) /\ Truthy(loadStoredRoom.visitorToken)
    THEN Pair(loadStoredRoom.roomId, loadStoredRoom.visitorToken)
    ELSE IF Truthy(urlRoom) /\ Truthy(urlToken) THEN Pair(urlRoom, urlToken)
    ELSE Pair(roomId, visitorToken)

\* the pair resumeChat settles on: link parameters first, then the stored item
ResumePair ==
    IF Truthy(urlRoom) /\ Truthy(urlToken) THEN Pair(urlRoom, urlToken)
    ELSE IF Truthy(loadStoredRoom.roomId) /\ Truthy(loadStoredRoom.visitorToken)
         THEN Pair(loadStoredRoom.roomId, loadStoredRoom.visitorToken)
    ELSE Pair(roomId, visitorToken)

\* ------------------------------------------------------------ REST calls
Request(kind, sid, index, origin, room, token, wsRoom) ==
    [kind |-> kind, sid |-> sid, index |-> index, origin |-> origin,
     room |-> room, token |-> token, wsRoom |-> wsRoom]

\* payload of POST start: room_id and visitor_token only when both are set
StartPayload(room, token) ==
    IF Truthy(room) /\ Truthy(token)
    THEN [room_id |-> room, visitor_token |-> token]
    ELSE [room_id |-> Null, visitor_token |-> Null]

StartRequest(sid, index, origin, room, token) ==
    Request("start", sid, index, origin,
            StartPayload(room, token).room_id,
            StartPayload(room, token).visitor_token, Null)

\* loadHistory's GET: room and token are read when the call is made
HistoryRequest(sid, origin, room, token, wsRoom) ==
    Request("history", sid, 0, origin, room, token, wsRoom)

\* mutant: the candidate index is not reset when a sequence begins
FirstIndexKept == 1 + 1

\* candidates are numbered from 1 here (index 0 of restBases in the source)
FirstIndex == 1
NextIndex(i) == i + 1
Exhausted(i) == i > Len(restBases)

\* bookkeeping: one entry per POST start issued, with the server's answer
\* and whether the success handler ran to its end
Call(index) == [index |-> index, answer |-> "pending", done |-> FALSE]
Answered(log, sid, index, answer) == [log EXCEPT ![sid][index].answer = answer]
Completed(log, sid, index) ==
    [log EXCEPT ![sid][index].answer = "accepted", ![sid][index].done = TRUE]

\* tryBase() of start sequence sid at candidate `index', run with the room and
\* token the widget holds at that moment; `rest' is what stays in flight,
\* `st', `rh' are the status and retry visibility before the call and `log'
\* the bookkeeping so far
TryBase(sid, index, origin, room, token, rest, st, rh, log) ==
    IF Exhausted(index)
    THEN /\ status' = "error"
         /\ retryHidden' = FALSE
         /\ pending' = rest
         /\ restBase' = restBase
         /\ startLog' = log
    ELSE /\ status' = st
         /\ retryHidden' = rh
         /\ restBase' = restBases[index]
         /\ pending' = rest \cup {StartRequest(sid, index, origin, room, token)}
         /\ startLog' = [log EXCEPT ![sid] = Append(@, Call(index))]

\* mutant: startChat leaves the retry control as it is
StartChatRetryShown(origin, room, token, rest) ==
    /\ nSeq' = nSeq + 1
    /\ LET log == Append(startLog, << >>) IN
       IF Exhausted(FirstIndex)
       THEN /\ status' = "error"
            /\ retryHidden' = FALSE
            /\ pending' = rest
            /\ restBase' = restBase
            /\ startLog' = log
       ELSE /\ status' = "opening"
            /\ retryHidden' = retryHidden
            /\ restBase' = restBases[FirstIndex]
            /\ pending' = rest \cup {StartRequest(nSeq + 1, FirstIndex, origin, room, token)}
            /\ startLog' = [log EXCEPT ![nSeq + 1] = <<Call(FirstIndex)>>]

\* startChat(): a new start sequence, from the first candidate
StartChat(origin, room, token, rest) ==
    /\ nSeq' = nSeq + 1
    /\ LET log == Append(startLog, << >>) IN
       IF Exhausted(FirstIndex)
       THEN /\ status' = "error"
            /\ retryHidden' = FALSE
            /\ pending' = rest
            /\ restBase' = restBase
            /\ startLog' = log
       ELSE /\ status' = "opening"
            /\ retryHidden' = TRUE
            /\ restBase' = restBases[FirstIndex]
            /\ pending' = rest \cup {StartRequest(nSeq + 1, FirstIndex, origin, room, token)}
            /\ startLog' = [log EXCEPT ![nSeq + 1] = <<Call(FirstIndex)>>]

\* ------------------------------------------------------- live connection
\* the path prefix of the url connectWebSocket builds (wsBase + wsPath), and
\* the same behind a proxy that keeps the REST prefix
PrimaryPath == "/ws/chat/"
FallbackPath == "/back/ws/chat/"

\* readyState, and the path prefix, room and token of the url; dropped is
\* bookkeeping: the socket has received a frame that did not parse
Socket(rs, room, token) ==
    [rs |-> rs, path |-> PrimaryPath, room |-> room, token |-> token,
     dropped |-> FALSE]
Active(s) == s.rs \in {CONNECTING, OPEN}

\* mutant: the current socket is left as it is
CloseNothing(ss, w) == ss

\* tryConnect's guard: close() the current socket if connecting or open
CloseCurrent(ss, w) ==
    IF w # 0 /\ Active(ss[w]) THEN [ss EXCEPT ![w].rs = CLOSING] ELSE ss

\* connectWebSocket(wsPath): the sockets after the call; the new one is last
Connect(ss, w, sock) == Append(CloseCurrent(ss, w), sock)

\* the room of the path handed to connectWebSocket when request p resolves
PathRoom(p) ==
    IF p.origin = "resume" THEN roomId
    ELSE IF p.wsRoom # Null THEN p.wsRoom
    ELSE roomId


\* ---------------------------------------------------------------- Init
NoTry == [at |-> 0, open |-> FALSE, forwarded |-> FALSE, made |-> FALSE, since |-> 0]

\* what the page and the browser hand to initChat
InitInputs ==
    /\ storageOK \in BOOLEAN
    /\ stored \in IF storageOK
                  THEN {NoItem, Garbage, Pair("r1", "t1"), Pair("r1", Null)}
                  ELSE {NoItem, Pair("r1", "t1")}
    /\ urlRoom \in {Null, "r2"}
    /\ urlToken \in IF urlRoom = Null THEN {Null} ELSE {Null, "t2"}

\* the closure variables of initChat before resumeChat() runs
InitWidget ==
    /\ activated = FALSE
    /\ roomId = Null
    /\ visitorToken = Null
    /\ restBase = restBases[1]
    /\ status = "initial"
    /\ pending = {}
    /\ nSeq = 0
    /\ retries = 0
    /\ list = << >>
    /\ seen = {}
    /\ socks = << >>
    /\ ws = 0
    /\ input = ""
    /\ lastSendAt = 0
    /\ now = T0
    /\ startLog = << >>
    /\ sent = << >>
    /\ lastTry = NoTry
    /\ prevTry = NoTry
    /\ lastBacklog = << >>
    /\ adds = 0
    /\ roomLog = << >>

\* var restBases = [restBase]
OneBase == <<1>>

\* the page's markup (not part of the script): the retry control is shown
\* only with the disconnected or error status, so it is hidden at load
RetryHiddenAtLoad == TRUE

Init ==
    InitInputs /\ restBases = OneBase /\ InitWidget /\ retryHidden = RetryHiddenAtLoad

\* the same widget on a page whose markup shows the retry control at load
InitAnyMarkup ==
    InitInputs /\ restBases = OneBase /\ InitWidget /\ retryHidden \in BOOLEAN

\* the same widget handed a longer list of candidate bases
InitBases ==
    /\ InitInputs
    /\ restBases \in {[i \in 1..n |-> i] : n \in 1..MaxBases}
    /\ InitWidget
    /\ retryHidden = RetryHiddenAtLoad

\* ------------------------------------------------------------- actions
\* resumeChat(), called once at the end of initChat
Activate ==
    /\ ~activated
    /\ activated' = TRUE
    /\ roomId' = ResumePair.roomId
    /\ visitorToken' = ResumePair.visitorToken
    /\ IF Falsy(roomId') \/ Falsy(visitorToken')
       THEN /\ StartChat("fresh", roomId', visitorToken', pending)
            /\ UNCHANGED tlVars
       ELSE /\ list' = clearMessages.list
            /\ seen' = clearMessages.seen
            /\ status' = "restoring"
            /\ pending' = pending \cup
                   {HistoryRequest(0, "resume", roomId', visitorToken', Null)}
            /\ UNCHANGED <<retryHidden, restBase, nSeq, startLog>>
    /\ UNCHANGED <<envVars, stored, urlRoom, urlToken, retries, sockVars,
                   gateVars, now, lastBacklog, adds>>

\* click on the retry control: startChat()
RetryClick ==
    /\ activated
    /\ ~retryHidden
    /\ retries < MaxRetries
    /\ retries' = retries + 1
    /\ StartChat("retry", roomId, visitorToken, pending)
    /\ UNCHANGED <<envVars, stored, urlRoom, urlToken, activated, roomId,
                   visitorToken, tlVars, sockVars, gateVars, now, lastBacklog, adds>>

\* POST start rejected (network, non-2xx, non-JSON body): next candidate
StartFail(p) ==
    /\ p \in pending
    /\ p.kind = "start"
    /\ TryBase(p.sid, NextIndex(p.index), p.origin, roomId, visitorToken,
               pending \ {p}, status, retryHidden,
               Answered(startLog, p.sid, p.index, "rejected"))
    /\ UNCHANGED <<envVars, stored, urlRoom, urlToken, activated, roomId,
                   visitorToken, nSeq, retries, tlVars, sockVars, gateVars,
                   now, lastBacklog, adds>>

\* POST start answered with data: the success handler of tryBase
StartOK(p, data) ==
    /\ p \in pending
    /\ p.kind = "start"
    /\ roomId' = data.room_id
    /\ visitorToken' = TokenOf(data.room_id)
    /\ IF ~storageOK
       THEN \* saveStoredRoom throws; the .catch of the chain moves on
            /\ TryBase(p.sid, NextIndex(p.index), p.origin, roomId',
                       visitorToken', pending \ {p}, status, retryHidden,
                       Answered(startLog, p.sid, p.index, "accepted"))
            /\ UNCHANGED <<stored, urlRoom, urlToken, tlVars>>
       ELSE /\ stored' = Pair(roomId', visitorToken')
            /\ urlRoom' = roomId'
            /\ urlToken' = visitorToken'
            /\ list' = clearMessages.list
            /\ seen' = clearMessages.seen
            /\ pending' = (pending \ {p}) \cup
                   {HistoryRequest(p.sid, "start", roomId', visitorToken',
                                   IF data.has_ws_path THEN data.room_id ELSE Null)}
            /\ startLog' = Completed(startLog, p.sid, p.index)
            /\ UNCHANGED <<status, retryHidden, restBase>>
    /\ UNCHANGED <<envVars, activated, nSeq, retries, sockVars, gateVars,
                   now, lastBacklog, adds>>

\* GET messages answered with an array: loadHistory renders it, then the
\* caller's .then connects
HistoryOK(p, data) ==
    /\ p \in pending
    /\ p.kind = "history"
    /\ list' = AddBacklog(Timeline(list, seen), data, now).list
    /\ seen' = AddBacklog(Timeline(list, seen), data, now).seen
    /\ socks' = Connect(socks, ws,
                        Socket(CONNECTING, PathRoom(p), visitorToken))
    /\ ws' = Len(socks')
    /\ pending' = pending \ {p}
    /\ lastBacklog' = data
    /\ UNCHANGED <<envVars, stored, urlRoom, urlToken, activated, sessVars,
                   uiVars, nSeq, retries, gateVars, now, startLog, adds>>

\* GET messages rejected after a start: connect all the same
HistoryFailStart(p) ==
    /\ p \in pending
    /\ p.kind = "history"
    /\ p.origin = "start"
    /\ socks' = Connect(socks, ws,
                        Socket(CONNECTING, PathRoom(p), visitorToken))
    /\ ws' = Len(socks')
    /\ pending' = pending \ {p}
    /\ lastBacklog' = << >>
    /\ UNCHANGED <<envVars, stored, urlRoom, urlToken, activated, sessVars,
                   uiVars, nSeq, retries, tlVars, gateVars, now, startLog, adds>>

\* GET messages rejected on resume: clearStoredRoom(), then startChat()
HistoryFailResume(p) ==
    /\ p \in pending
    /\ p.kind = "history"
    /\ p.origin = "resume"
    /\ IF ~storageOK
       THEN \* localStorage throws inside the .catch handler: nothing follows
            /\ pending' = pending \ {p}
            /\ UNCHANGED <<stored, uiVars, restBase, nSeq, startLog>>
       ELSE /\ stored' = NoItem
            /\ StartChat("invalidated", roomId, visitorToken, pending \ {p})
    /\ UNCHANGED <<envVars, urlRoom, urlToken, activated, roomId, visitorToken,
                   retries, tlVars, sockVars, gateVars, now, lastBacklog, adds>>


\* ws.onopen of socket i
WsOpen(i) ==
    /\ i \in DOMAIN socks
    /\ socks[i].rs = CONNECTING
    /\ socks' = [socks EXCEPT ![i].rs = OPEN]
    /\ status' = "connected"
    /\ retryHidden' = TRUE
    /\ UNCHANGED <<envVars, stored, urlRoom, urlToken, activated, sessVars,
                   pending, nSeq, retries, tlVars, ws, gateVars, now,
                   startLog, lastBacklog, adds>>

\* the peer starts the closing handshake: readyState 2, no event yet
WsClosing(i) ==
    /\ i \in DOMAIN socks
    /\ socks[i].rs = OPEN
    /\ socks' = [socks EXCEPT ![i].rs = CLOSING]
    /\ UNCHANGED <<envVars, stored, urlRoom, urlToken, activated, sessVars,
                   uiVars, pending, nSeq, retries, tlVars, ws, gateVars, now,
                   startLog, lastBacklog, adds>>

\* mutant: onclose reconnects by itself
WsCloseReconnects(i) ==
    /\ i \in DOMAIN socks
    /\ socks[i].rs # CLOSED
    /\ socks' = [socks EXCEPT ![i].rs = CLOSED]
    /\ StartChat("retry", roomId, visitorToken, pending)
    /\ UNCHANGED <<envVars, stored, urlRoom, urlToken, activated, roomId,
                   visitorToken, retries, tlVars, ws, gateVars, now,
                   lastBacklog, adds>>

\* ws.onclose of socket i: failed to establish, dropped, or close() completed
WsClose(i) ==
    /\ i \in DOMAIN socks
    /\ socks[i].rs # CLOSED
    /\ socks' = [socks EXCEPT ![i].rs = CLOSED]
    /\ status' = "disconnected"
    /\ retryHidden' = FALSE
    /\ UNCHANGED <<envVars, stored, urlRoom, urlToken, activated, sessVars,
                   pending, nSeq, retries, tlVars, ws, gateVars, now,
                   startLog, lastBacklog, adds>>

\* bookkeeping: socket i has dropped an unparsable frame
NoteDropped(ss, i) == [ss EXCEPT ![i].dropped = TRUE]

\* mutant: a frame that does not parse is treated as a failure of the socket
WsMessageStrict(i, frame) ==
    /\ i \in DOMAIN socks
    /\ socks[i].rs = OPEN
    /\ IF "malformed" \in DOMAIN frame
       THEN /\ socks' = [NoteDropped(socks, i) EXCEPT ![i].rs = CLOSING]
            /\ status' = "disconnected"
            /\ retryHidden' = FALSE
            /\ UNCHANGED tlVars
       ELSE /\ list' = addMessage(Timeline(list, seen), LiveMessage(frame, now)).list
            /\ seen' = addMessage(Timeline(list, seen), LiveMessage(frame, now)).seen
            /\ UNCHANGED <<socks, uiVars>>
    /\ UNCHANGED <<envVars, stored, urlRoom, urlToken, activated, sessVars,
                   pending, nSeq, retries, ws, gateVars, now,
                   startLog, lastBacklog, adds>>

\* ws.onmessage of socket i (frames are delivered only while it is open):
\* JSON.parse throws on an unparsable frame and the catch ignores it
WsMessage(i, frame) ==
    /\ i \in DOMAIN socks
    /\ socks[i].rs = OPEN
    /\ IF "malformed" \in DOMAIN frame
       THEN /\ socks' = NoteDropped(socks, i)
            /\ UNCHANGED tlVars
       ELSE /\ list' = addMessage(Timeline(list, seen), LiveMessage(frame, now)).list
            /\ seen' = addMessage(Timeline(list, seen), LiveMessage(frame, now)).seen
            /\ UNCHANGED socks
    /\ UNCHANGED <<envVars, stored, urlRoom, urlToken, activated, sessVars,
                   uiVars, pending, nSeq, retries, ws, gateVars, now,
                   startLog, lastBacklog, adds>>

\* ------------------------------------------------------------- send gate
\* mutant: no debounce
DebounceOff(clock, last) == TRUE

\* the debounce test of sendMessage: true when the call is let through
DebouncePassed(clock, last) == ~(clock - last < DebounceMs)

\* mutant: the readyState test is skipped
CanSendUnchecked == TRUE

CanSend == ws # 0 /\ socks[ws].rs = OPEN

uuid == "u" \o ToString(Len(sent) + 1)

\* when the latest frame was handed to ws.send; 0 (page epoch) if none was
LastForwardedAt == IF sent = << >> THEN 0 ELSE sent[Len(sent)].at

\* bookkeeping of one sendMessage call with non-empty text: when it was made,
\* whether the socket was open, whether a frame was handed to ws.send, and
\* when the latest frame before it had been sent
Try(open, forwarded) ==
    [at |-> now, open |-> open, forwarded |-> forwarded, made |-> TRUE,
     since |-> LastForwardedAt]

\* the user edits the input
TypeInput(v) ==
    /\ input # v
    /\ input' = v
    /\ UNCHANGED <<envVars, stored, urlRoom, urlToken, activated, sessVars,
                   uiVars, pending, nSeq, retries, tlVars, sockVars,
                   lastSendAt, sent, lastTry, prevTry, now, startLog, lastBacklog, adds>>

\* sendMessage(): click on send, or Enter in the input
SendMessage ==
    /\ activated
    /\ IF Trim(input) = ""
       THEN UNCHANGED <<gateVars, uiVars>>
       ELSE /\ prevTry' = lastTry
            /\ IF ~DebouncePassed(now, lastSendAt)
               THEN /\ lastTry' = Try(CanSend, FALSE)
                    /\ UNCHANGED <<input, lastSendAt, sent, uiVars>>
               ELSE /\ lastSendAt' = now
                    /\ IF ~CanSend
                       THEN /\ status' = "notconnected"
                            /\ lastTry' = Try(FALSE, FALSE)
                            /\ UNCHANGED <<input, sent, retryHidden>>
                       ELSE /\ sent' = Append(sent, [sock |-> ws, at |-> now,
                                                     message |-> Trim(input),
                                                     client_msg_id |-> uuid])
                            /\ input' = ""
                            /\ lastTry' = Try(TRUE, TRUE)
                            /\ UNCHANGED uiVars
    /\ UNCHANGED <<envVars, stored, urlRoom, urlToken, activated, sessVars,
                   pending, nSeq, retries, tlVars, sockVars, now, startLog, lastBacklog, adds>>

\* time passes
Tick ==
    /\ now < T0 + MaxTicks * TickMs
    /\ now' = now + TickMs
    /\ UNCHANGED <<envVars, stored, urlRoom, urlToken, activated, sessVars,
                   uiVars, pending, nSeq, retries, tlVars, sockVars, gateVars,
                   startLog, lastBacklog, adds>>

\* --------------------------------------------------------- specifications
Controller ==
    \/ Activate
    \/ RetryClick
    \/ \E p \in pending : StartFail(p)
    \/ \E p \in pending, data \in StartResponses : StartOK(p, data)
    \/ \E p \in pending, data \in Backlogs : HistoryOK(p, data)
    \/ \E p \in pending : HistoryFailStart(p)
    \/ \E p \in pending : HistoryFailResume(p)

Connection ==
    \/ \E i \in DOMAIN socks : WsOpen(i)
    \/ \E i \in DOMAIN socks : WsClosing(i)
    \/ \E i \in DOMAIN socks : WsClose(i)
    \/ \E i \in DOMAIN socks, frame \in Frames : WsMessage(i, frame)

\* controller and connection of the widget
Next == Controller \/ Connection

Spec == Init /\ [][Next]_vars

\* the same, with a list of candidate bases
SpecBases == InitBases /\ [][Next]_vars

\* the same, on a page of any markup
SpecOpen == InitAnyMarkup /\ [][Next]_vars

\* the whole widget with its send gate and the clock, on a first visit
InitGate ==
    /\ storageOK = TRUE
    /\ stored = NoItem
    /\ urlRoom = Null
    /\ urlToken = Null
    /\ restBases = OneBase
    /\ InitWidget
    /\ retryHidden = RetryHiddenAtLoad

Gate ==
    \/ SendMessage
    \/ \E v \in Inputs : TypeInput(v)
    \/ Tick

\* the room is idle: its history is empty and nothing arrives on the stream
IdleRoom == [room_id |-> "r1", has_ws_path |-> TRUE]

NextGate ==
    \/ Activate
    \/ RetryClick
    \/ \E p \in pending : StartFail(p)
    \/ \E p \in pending : StartOK(p, IdleRoom)
    \/ \E p \in pending : HistoryOK(p, << >>)
    \/ \E p \in pending : HistoryFailStart(p)
    \/ \E i \in DOMAIN socks : WsOpen(i)
    \/ \E i \in DOMAIN socks : WsClosing(i)
    \/ \E i \in DOMAIN socks : WsClose(i)
    \/ Gate

SpecGate == InitGate /\ [][NextGate]_vars

\* ------------------------------------------------------- the room's log
\* the widget in a room whose owner writes: the server keeps the messages of
\* the room, answers the history fetch with all it holds and broadcasts each
\* new message to the sockets connected at that moment
RoomIds == {"m1", "m2"}

HistoryEntry(id) == IF id = "m1" THEN HistM1 ELSE HistM2

\* the frame the server broadcasts for a stored message
Broadcast(id) ==
    [id |-> id, client_msg_id |-> Null,
     sender_type |-> HistoryEntry(id).sender_type,
     message |-> HistoryEntry(id).content,
     created_at |-> HistoryEntry(id).created_at]

\* the response of GET .../messages/ : every message the server holds
RoomBacklog == [k \in DOMAIN roomLog |-> HistoryEntry(roomLog[k])]

InitRoom ==
    /\ storageOK = TRUE
    /\ stored \in {NoItem, Pair("r1", "t1")}
    /\ urlRoom = Null
    /\ urlToken = Null
    /\ restBases = OneBase
    /\ InitWidget
    /\ retryHidden = RetryHiddenAtLoad

\* a message is created in the room; the broadcast reaches the widget if one
\* of its sockets is connected (a socket the server has accepted is taken as
\* open: frames sent before onopen are delivered right after it)
RoomPost(id) ==
    /\ id \notin {roomLog[k] : k \in DOMAIN roomLog}
    /\ roomLog' = Append(roomLog, id)
    /\ IF \E i \in DOMAIN socks : socks[i].rs = OPEN
       THEN /\ list' = addMessage(Timeline(list, seen), LiveMessage(Broadcast(id), now)).list
            /\ seen' = addMessage(Timeline(list, seen), LiveMessage(Broadcast(id), now)).seen
       ELSE UNCHANGED tlVars
    /\ UNCHANGED <<storageOK, restBases, stored, urlRoom, urlToken, activated,
                   sessVars, uiVars, pending, nSeq, retries, sockVars, gateVars,
                   now, startLog, lastBacklog, adds>>

NextRoom ==
    \/ Activate
    \/ RetryClick
    \/ \E p \in pending : StartFail(p)
    \/ \E p \in pending : StartOK(p, IdleRoom)
    \/ \E p \in pending : HistoryOK(p, RoomBacklog)
    \/ \E i \in DOMAIN socks : WsOpen(i)
    \/ \E i \in DOMAIN socks : WsClose(i)
    \/ \E id \in RoomIds : RoomPost(id)

SpecRoom == InitRoom /\ [][NextRoom]_vars

\* ------------------------------------------------------ timeline harness
\* messages as addMessage can be handed them, one of every key shape
Messages ==
    [id : {Null, "m1", "m2"}, client_msg_id : {Null, "c1"}, sender : {"owner"},
     text : {"hi", "yo"}, time : {"1"}, created_at : {Null, Iso1, Iso2}]

InitTimeline ==
    /\ storageOK = TRUE
    /\ stored = NoItem
    /\ urlRoom = Null
    /\ urlToken = Null
    /\ restBases = OneBase
    /\ InitWidget
    /\ retryHidden = RetryHiddenAtLoad

\* one addMessage(msg) call
Add(msg) ==
    /\ adds < MaxAdds
    /\ adds' = adds + 1
    /\ list' = addMessage(Timeline(list, seen), msg).list
    /\ seen' = addMessage(Timeline(list, seen), msg).seen
    /\ UNCHANGED <<envVars, stored, urlRoom, urlToken, activated, sessVars,
                   uiVars, pending, nSeq, retries, sockVars, gateVars, now,
                   startLog, lastBacklog>>

\* one clearMessages() call
Clear ==
    /\ adds > 0
    /\ adds' = 0
    /\ list' = clearMessages.list
    /\ seen' = clearMessages.seen
    /\ UNCHANGED <<envVars, stored, urlRoom, urlToken, activated, sessVars,
                   uiVars, pending, nSeq, retries, sockVars, gateVars, now,
                   startLog, lastBacklog>>

NextTimeline == (\E msg \in Messages : Add(msg)) \/ Clear

SpecTimeline == InitTimeline /\ [][NextTimeline]_vars

\* ----------------------------------------------------------------- claims
\* C1: when a resume's backlog fetch fails, the persisted identity is removed
\* and the start request that follows carries no room_id and no visitor_token.
C1_FreshStartAfterFailedResume ==
    \A p \in pending :
        (p.kind = "start" /\ p.origin = "invalidated") =>
            /\ stored = NoItem
            /\ p.room = Null
            /\ p.token = Null

\* C2: every resume whose backlog fetch fails clears the persisted identity
\* and issues a start request; the step that takes the failure never leaves
\* the session restoring with nothing in flight.
C2_FailedResumeAlwaysRestarts ==
    [][\A p \in pending :
          (p.origin = "resume" /\ p \notin pending' /\ socks' = socks) =>
              /\ stored' = NoItem
              /\ \E q \in pending' : q.kind = "start"
              /\ status' # "restoring"]_vars


\* C3: between two clears no two rendered messages have the same Dedup Key,
\* and the dedup map holds exactly the keys of the rendered messages: the
\* first add of a key renders, every later add of that key renders nothing.
RenderedKeys == {messageKey(list[i]) : i \in DOMAIN list}

C3_OneRenderPerKey ==
    /\ \A i, j \in DOMAIN list : i # j => messageKey(list[i]) # messageKey(list[j])
    /\ seen = RenderedKeys

\* two adds since the last clear, one message rendered: a duplicate was dropped
C3_Witness == adds = 2 /\ Len(list) = 1


\* C4: the same logical message (same server id), once from the backlog and
\* once as a live frame that carries a client message id, is rendered at most
\* once: no two rendered messages share a server id.
C4_OneRenderPerServerId ==
    \A i, j \in DOMAIN list :
        (i # j /\ Truthy(list[i].id)) => list[i].id # list[j].id

\* C5: while the connection a sequence opened is connecting or open, the
\* history fetch of the sequence has resolved and every message it returned
\* is in the timeline: backlog first, live stream after.
BacklogKeys == {messageKey(HistoryMessage(lastBacklog[k], now)) : k \in DOMAIN lastBacklog}

C5_BacklogBeforeLive ==
    \A i \in DOMAIN socks :
        Active(socks[i]) =>
            /\ i = ws
            /\ ~ \E p \in pending : p.kind = "history"
            /\ BacklogKeys \subseteq RenderedKeys

\* a live message was applied on top of a rendered backlog
C5_Witness ==
    /\ ws # 0
    /\ socks[ws].rs = OPEN
    /\ lastBacklog = <<HistM1, HistM2>>
    /\ Len(list) = 3

\* C6: a start sequence calls the candidates in list order, one call per
\* candidate, each only after the one before was rejected, and the call the
\* server accepts ends the sequence in success; with only the last of N
\* accepting that is exactly N calls.
C6_CallsInOrderThenSuccess ==
    \A sid \in DOMAIN startLog :
        /\ Len(startLog[sid]) <= Len(restBases)
        /\ \A i \in DOMAIN startLog[sid] :
              /\ startLog[sid][i].index = i
              /\ i < Len(startLog[sid]) => startLog[sid][i].answer = "rejected"
              /\ startLog[sid][i].answer = "accepted" => startLog[sid][i].done

\* C7: the step that uses up the last candidate shows the error status and
\* the retry control; a click on retry begins a new sequence at the first
\* candidate.
LastCandidateFails ==
    \E p \in pending :
        /\ p.kind = "start"
        /\ p.index = Len(restBases)
        /\ p \notin pending'
        /\ ~ \E h \in pending' : h.kind = "history" /\ h.sid = p.sid

RetryStep == retries' = retries + 1

C7_ErrorThenRetryFromFirst ==
    [][/\ LastCandidateFails => (status' = "error" /\ ~retryHidden')
       /\ RetryStep =>
             /\ nSeq' = nSeq + 1
             /\ status' = "opening"
             /\ startLog'[nSeq'] = <<Call(1)>>
             /\ \E q \in pending' \ pending :
                    q.kind = "start" /\ q.sid = nSeq' /\ q.index = 1]_vars

\* a retry under way after a sequence that used up two candidates
C7_Witness ==
    /\ retries > 0
    /\ nSeq > 1
    /\ Len(restBases) = 2
    /\ Len(startLog[nSeq - 1]) = 2
    /\ \A i \in 1..2 : startLog[nSeq - 1][i].answer = "rejected"
    /\ startLog[nSeq] = <<Call(1)>>

\* C8: no two connections of the session are connecting or open at once:
\* connect closes the one before it creates the next.
C8_OneActiveConnection ==
    Cardinality({i \in DOMAIN socks : Active(socks[i])}) <= 1

\* connect was called while the first socket was still connecting
C8_Witness ==
    /\ Len(socks) = 2
    /\ ws = 2
    /\ socks[1].rs = CLOSING
    /\ Active(socks[2])
    /\ status = "opening"

\* C9: the close of the connection shows the disconnected status and the
\* retry control and starts nothing; with the connection closed nothing is in
\* flight, the retry control stays visible, and only a click on retry issues
\* a request or a connection.
CloseStep == \E i \in DOMAIN socks : socks[i].rs # CLOSED /\ socks'[i].rs = CLOSED

Dropped == ws # 0 /\ socks[ws].rs = CLOSED /\ pending = {}

Issues == ~(pending' \subseteq pending) \/ Len(socks') > Len(socks)

C9_ManualRetryOnly ==
    [][/\ CloseStep =>
             /\ status' = "disconnected"
             /\ ~retryHidden'
             /\ pending' = {}
             /\ Len(socks') = Len(socks)
       /\ Dropped => (~retryHidden /\ (Issues => RetryStep))]_vars

\* the connection was open and has closed; nothing has been retried yet
C9_Witness ==
    /\ ws # 0
    /\ socks[ws].rs = CLOSED
    /\ status = "disconnected"
    /\ ~retryHidden
    /\ pending = {}
    /\ retries = 0

\* C10 as stated: of two sendMessage calls with non-empty text made within
\* the debounce interval of each other on an open connection, exactly one
\* sends a frame.
TwoQuickTries ==
    /\ prevTry.made /\ lastTry.made
    /\ prevTry.open /\ lastTry.open
    /\ lastTry.at - prevTry.at < DebounceMs

C10_ExactlyOneOfTwo ==
    TwoQuickTries => (prevTry.forwarded # lastTry.forwarded)

\* C10 amended: of two such calls at most one sends a frame, and none does
\* only when both fall inside the window of an earlier call.
C10_AtMostOneOfTwo ==
    TwoQuickTries =>
        /\ ~(prevTry.forwarded /\ lastTry.forwarded)
        /\ (~prevTry.forwarded /\ ~lastTry.forwarded) =>
               (lastSendAt <= prevTry.at /\ lastTry.at - lastSendAt < DebounceMs)

\* the first of two quick calls sent its frame, the second was held back
C10_Witness ==
    /\ TwoQuickTries
    /\ prevTry.forwarded
    /\ ~lastTry.forwarded
    /\ Len(sent) = 1


\* C11: the debounce window counts from the last forwarded send only: a call
\* with non-empty text on an open connection, more than the debounce interval
\* after the last frame that was sent, sends its frame, whatever attempts
\* were turned away as not connected in between.
C11_WindowFromLastForwardedSend ==
    (/\ lastTry.made
     /\ lastTry.open
     /\ lastTry.at - lastTry.since > DebounceMs) => lastTry.forwarded

\* C12 as stated: a sendMessage call with non-empty text made with no socket
\* or a socket that is not open sends no frame, sets the not-connected status
\* and leaves the input; a call with empty or whitespace-only text changes
\* nothing.
NotOpen == ws = 0 \/ socks[ws].rs # OPEN

C12_NotConnectedSignalled ==
    [][/\ (SendMessage /\ Trim(input) # "" /\ NotOpen) =>
             /\ sent' = sent
             /\ status' = "notconnected"
             /\ input' = input
       /\ (SendMessage /\ Trim(input) = "") => UNCHANGED vars]_vars

\* C12 amended: such a call sends no frame and leaves the input; it sets the
\* not-connected status when it passes the debounce test and leaves status
\* and retry control as they are when it falls inside the debounce window; a
\* call with empty or whitespace-only text changes nothing.
C12_NotConnectedSignalledPastDebounce ==
    [][/\ (SendMessage /\ Trim(input) # "" /\ NotOpen) =>
             /\ sent' = sent
             /\ input' = input
             /\ retryHidden' = retryHidden
             /\ IF now - lastSendAt < DebounceMs
                THEN status' = status /\ lastSendAt' = lastSendAt
                ELSE status' = "notconnected" /\ lastSendAt' = now
       /\ (SendMessage /\ Trim(input) = "") => UNCHANGED vars]_vars

\* a call turned away as not connected: status set, text still in the input
C12_Witness ==
    /\ lastTry.made
    /\ ~lastTry.open
    /\ lastSendAt = lastTry.at
    /\ status = "notconnected"
    /\ input = "hi"
    /\ sent = << >>

\* C13: the step that takes the answer of an accepted start request leaves
\* the persisted record equal to the returned (room_id, visitor_token) pair
\* and the timeline empty, before any backlog of the new room is added.
StartAccepted ==
    \E sid \in DOMAIN startLog : \E i \in DOMAIN startLog[sid] :
        /\ startLog[sid][i].answer = "pending"
        /\ startLog'[sid][i].answer = "accepted"

C13_StartPersistsAndClears ==
    [][StartAccepted =>
          /\ roomId' \in Rooms
          /\ stored' = Pair(roomId', visitorToken')
          /\ list' = << >>
          /\ seen' = {}]_vars

\* C14: the step that completes a resume (its history fetch succeeded) leaves
\* the persisted record equal to the resumed pair, also when the pair came
\* from the link parameters.
C14_ResumePersistsPair ==
    [][\A p \in pending :
          (/\ p.kind = "history"
           /\ p.origin = "resume"
           /\ p \notin pending'
           /\ Len(socks') = Len(socks) + 1) =>
              stored' = Pair(p.room, p.token)]_vars

\* C15: activation takes the link parameters when both are present, else the
\* stored record when both its fields are present; with a pair it fetches
\* the history of that pair (resuming), without one it issues a start request
\* and no history fetch (starting).
UrlPair == Truthy(urlRoom) /\ Truthy(urlToken)

StoredPair ==
    /\ storageOK
    /\ stored.kind = "object"
    /\ Truthy(stored.roomId)
    /\ Truthy(stored.visitorToken)

Resuming(r, t) ==
    /\ status' = "restoring"
    /\ roomId' = r
    /\ visitorToken' = t
    /\ nSeq' = nSeq
    /\ Cardinality(pending') = 1
    /\ \A q \in pending' : q.kind = "history" /\ q.room = r /\ q.token = t

Starting ==
    /\ status' = "opening"
    /\ nSeq' = nSeq + 1
    /\ Cardinality(pending') = 1
    /\ \A q \in pending' : q.kind = "start" /\ q.index = 1

C15_ActivationChoosesPair ==
    [][(~activated /\ activated') =>
          IF UrlPair THEN Resuming(urlRoom, urlToken)
          ELSE IF StoredPair THEN Resuming(stored.roomId, stored.visitorToken)
          ELSE Starting]_vars

\* the link parameters won over a different stored pair
C15_Witness ==
    /\ activated
    /\ status = "restoring"
    /\ stored = Pair("r1", "t1")
    /\ roomId = "r2"
    /\ \E q \in pending : q.kind = "history" /\ q.room = "r2"

\* C16: an accepted start request is followed by the history fetch of the new
\* room, and the step that takes that fetch's result, success or failure,
\* creates exactly one socket for the room, sets no status and keeps the
\* room; no other step creates a socket for the sequence.
StartHistoryResolved(p) ==
    /\ p.kind = "history"
    /\ p.origin = "start"
    /\ p \notin pending'

C16_OneConnectAfterStart ==
    [][/\ StartAccepted =>
             \E q \in pending' \ pending : q.kind = "history" /\ q.room = roomId'
       /\ \A p \in pending :
             StartHistoryResolved(p) =>
                 /\ Len(socks') = Len(socks) + 1
                 /\ socks'[Len(socks')].rs = CONNECTING
                 /\ socks'[Len(socks')].room = p.room
                 /\ status' = status
                 /\ status' # "error"
                 /\ <<roomId', visitorToken', stored'>> = <<roomId, visitorToken, stored>>
                 /\ pending' = pending \ {p}
       /\ Len(socks') # Len(socks) =>
             \E p \in pending : p.kind = "history" /\ pending' = pending \ {p}]_vars

\* C17: when the socket on the primary path fails before it opens, the step
\* that takes the failure reports nothing yet and makes one connection
\* attempt on the alternate-prefixed path for the same room.
C17_FallbackBeforeFailure ==
    [][\A i \in DOMAIN socks :
          (/\ socks[i].path = PrimaryPath
           /\ socks[i].rs = CONNECTING
           /\ socks'[i].rs = CLOSED) =>
              /\ Len(socks') = Len(socks) + 1
              /\ socks'[Len(socks')].path = FallbackPath
              /\ socks'[Len(socks')].room = socks[i].room
              /\ status' = status
              /\ retryHidden' = retryHidden]_vars

\* C18: a history fetch that resolves after the room session was replaced
\* (the widget's room or token is no longer the one the fetch was made for)
\* adds nothing to the timeline and opens no connection.
Stale(p) ==
    /\ p.kind = "history"
    /\ p.room # roomId \/ p.token # visitorToken

C18_StaleHistoryIgnored ==
    [][\A p \in pending :
          (Stale(p) /\ p \notin pending') =>
              /\ list' = list
              /\ seen' = seen
              /\ socks' = socks
              /\ ws' = ws]_vars

GoodFrames == Frames \ {BadFrame}

C20_BadFrameDropped ==
    [][\A i \in DOMAIN socks :
          /\ (~socks[i].dropped /\ socks'[i].dropped) =>
                 /\ list' = list
                 /\ seen' = seen
                 /\ status' = status
                 /\ retryHidden' = retryHidden
                 /\ socks'[i].rs = socks[i].rs
                 /\ ws' = ws
                 /\ pending' = pending
          /\ (socks[i].dropped /\ socks[i].rs = OPEN) =>
                 \A f \in GoodFrames :
                     /\ ENABLED WsMessage(i, f)
                     /\ WsMessage(i, f) =>
                            messageKey(LiveMessage(f, now)) \in seen']_vars

\* both well-formed frames were applied on a connection that dropped a frame
C20_Witness ==
    \E i \in DOMAIN socks :
        /\ socks[i].dropped
        /\ socks[i].rs = OPEN
        /\ lastBacklog = << >>
        /\ Len(list) = 2

\* C21: loading the stored record never raises: an item that does not parse,
\* or storage that cannot be read, loads as absent, and activation without
\* link parameters then begins the start sequence.
Unloadable == ~storageOK \/ stored.kind = "garbage"

C21_LoadNeverRaises ==
    [][(~activated /\ Unloadable) =>
          /\ loadStoredRoom = Pair(Null, Null)
          /\ ENABLED Activate
          /\ (activated' /\ urlRoom = Null /\ urlToken = Null) => Starting]_vars

\* activation found an unparsable item and went on to the start request
C21_Witness ==
    /\ activated
    /\ stored = Garbage
    /\ urlRoom = Null
    /\ nSeq = 1
    /\ status = "opening"
    /\ \E q \in pending : q.kind = "start" /\ q.room = Null

\* ------------------------------------------------- scheduling assumptions
\* every request in flight is answered or fails
Respond ==
    \/ \E p \in pending : StartFail(p)
    \/ \E p \in pending, data \in StartResponses : StartOK(p, data)
    \/ \E p \in pending, data \in Backlogs : HistoryOK(p, data)
    \/ \E p \in pending : HistoryFailStart(p)
    \/ \E p \in pending : HistoryFailResume(p)

\* every connection attempt opens or closes
Settle == \E i \in DOMAIN socks : socks[i].rs = CONNECTING /\ (WsOpen(i) \/ WsClose(i))

\* the widget with the page's script run to its end, the network answering
\* and sockets settling
SpecFair ==
    /\ Init
    /\ [][Next]_vars
    /\ WF_vars(Activate)
    /\ WF_vars(Respond)
    /\ WF_vars(Settle)

\* C22: with every request answered and every connection attempt settled,
\* the opening and the restoring status always lead to a resting status:
\* connected, or disconnected or error with the retry control visible.
Resting ==
    \/ status = "connected"
    \/ status \in {"disconnected", "error"} /\ ~retryHidden

C22_AlwaysReachesRestingStatus ==
    (activated /\ status \in {"opening", "restoring"}) ~> Resting

\* C23: between two clears the timeline is append-only and in call order: an
\* add leaves the messages already shown as they are and where they are, and
\* a message it renders is placed after all of them, whatever its created_at.
C23_AppendOnlyInCallOrder ==
    [][adds' = adds + 1 =>
          \/ list' = list
          \/ /\ Len(list') = Len(list) + 1
             /\ SubSeq(list', 1, Len(list)) = list
             /\ list'[Len(list')] \in Messages
             /\ messageKey(list'[Len(list')]) \notin seen]_vars

\* a message with the earlier created_at is shown after one with the later
C23_Witness ==
    /\ Len(list) = 2
    /\ list[1].created_at = Iso2
    /\ list[2].created_at = Iso1

\* C24: the indicators agree with the current connection.  The connected
\* status is shown only while the current socket is open (it has opened and
\* its close has not been reported), and the disconnected status with the
\* retry control only while no socket of the session is connecting or open:
\* the close of a replaced socket does not overwrite what its successor shows.
C24_IndicatorsAgree ==
    /\ status = "connected" => (ws # 0 /\ socks[ws].rs \in {OPEN, CLOSING})
    /\ (status = "disconnected" /\ ~retryHidden) =>
           ~ \E i \in DOMAIN socks : Active(socks[i])

\* C25: no message is lost across the hand-over from backlog to live stream:
\* once the current socket is open, every message the room holds, also one
\* created after the history response and before the socket opened, is in
\* the timeline.
RenderedIds == {list[i].id : i \in DOMAIN list}

C25_NothingLostAtHandOver ==
    (ws # 0 /\ socks[ws].rs = OPEN) =>
        \A k \in DOMAIN roomLog : roomLog[k] \in RenderedIds

====
